---- MODULE Spec2Model ----
(***************************************************************************)
(* Model of the CMSIS-DAP USB interface of rp2040_cmsis_dap:               *)
(*   - CmsisDapInterface::poll, the command dispatcher and response state  *)
(*     machine over the bulk OUT / bulk IN endpoints (cmsis_dap.rs 70-126) *)
(*   - CmsisDapInterface::control_in and the MS OS 2.0 descriptor writers  *)
(*     (cmsis_dap.rs 171-345)                                              *)
(* Bytes are naturals 0..255.  A Rust slice or array is a sequence; the    *)
(* Rust index i is the TLA+ index i + 1.  Option<T> is a sequence of       *)
(* length at most one.                                                     *)
(***************************************************************************)
EXTENDS Integers, Sequences, FiniteSets, TLC

VARIABLES
    pc,                     \* position of main: "run", or "hung" / "panicked"
    response_buffer,        \* CmsisDapInterface.response_buffer, [u8; 64]
    pending_response_bytes, \* CmsisDapInterface.pending_response_bytes
    out_log,                \* packets read from the OUT endpoint, in order
    in_log,                 \* writes accepted by the IN endpoint, in order
    resp_log,               \* responses assembled by poll, in order
    io,                     \* what the last poll call did at the endpoints
    xfer,                   \* outcome of the last control-IN transfer
    nest,                   \* outcome of the last call of the descriptor writers
    reg,                    \* outcome of the last call of write_registry_property
    config,                 \* the SwdIoConfig handed to the SwdIo operations
    swd_op,                 \* the last SwdIo operation and its result
    main_pc,                \* rp2040_cdc: position of the loop of main
    irq_pc,                 \* rp2040_cdc: position of the USBCTRL_IRQ handler
    primask,                \* rp2040_cdc: TRUE while interrupts are disabled
    nvic_enabled,           \* rp2040_cdc: USBCTRL_IRQ unmasked in the NVIC
    borrow,                 \* rp2040_cdc: who holds USB_DEVICE / USB_SERIAL
    cdc_buffer,             \* rp2040_cdc: buffer of main, [u8; 64]
    pending_bytes_to_write, \* rp2040_cdc: Option<(bytes_written, bytes_to_write)>
    rx_total,               \* rp2040_cdc: number of bytes read from the port
    tx_log,                 \* rp2040_cdc: bytes written to the port, in order
    cdc_io                  \* rp2040_cdc: what the last loopback step did

dap_vars == <<pc, response_buffer, pending_response_bytes, out_log, in_log,
              resp_log, io, xfer>>
swd_vars == <<config, swd_op>>
cdc_vars == <<main_pc, irq_pc, primask, nvic_enabled, borrow, cdc_buffer,
              pending_bytes_to_write, rx_total, tx_log, cdc_io>>

vars == <<dap_vars, nest, reg, swd_vars, cdc_vars>>

-----------------------------------------------------------------------------
(* Bounds of the model                                                     *)

\* number of OUT packets the host sends in one behaviour of Spec
MaxPackets == 2
\* number of DAP_Info frames in one generated packet of SpecInfo
MaxFrames == 5
\* longest control transfer buffer of SpecDesc
MaxCtrlBuf == 180

-----------------------------------------------------------------------------
(* Constants of the program                                                *)

BufferSize == 64
MS_VENDOR_CODE == 1
MS_OS_20_SET_HEADER_DESCRIPTOR == 0
MS_OS_20_SUBSET_HEADER_CONFIGURATION == 1
MS_OS_20_SUBSET_HEADER_FUNCTION == 2
MS_OS_20_FEATURE_COMPATIBLE_ID == 3
MS_OS_20_FEATURE_REG_PROPERTY == 4
RegPropertyType_String == 1

None == << >>
Some(v) == <<v>>

Byte == 0..255

\* [0u8; n]
Zeros(n) == [i \in 1..n |-> 0]

\* buffer[a] = v for the Rust index a
Put(buffer, a, v) == [buffer EXCEPT ![a + 1] = v]

\* buffer[a..a + bytes.len()].copy_from_slice(bytes)
CopyFromSlice(buffer, a, bytes) ==
    SubSeq(buffer, 1, a) \o bytes \o SubSeq(buffer, a + Len(bytes) + 1, Len(buffer))

\* &buffer[..n]
Prefix(buffer, n) == SubSeq(buffer, 1, n)

\* &buffer[n..]
DropFirst(buffer, n) == SubSeq(buffer, n + 1, Len(buffer))

-----------------------------------------------------------------------------
(* DAP_Info: the canned value of a sub-ID (match request[1])               *)

InfoBytesSwapped(id) ==
    CASE id = 1   -> <<118, 101, 110, 100, 111, 114>>
      [] id = 2   -> <<112, 114, 111, 100, 117, 99, 116>>
      [] id = 3   -> <<115, 101, 114, 105, 97, 108>>
      [] id = 4   -> <<49, 46, 48, 46, 48>>
      [] id = 9   -> <<50, 46, 48, 46, 48>>
      [] id = 240 -> <<1, 0>>
      [] id = 254 -> <<1>>
      [] id = 255 -> <<64, 0>>
      [] OTHER    -> <<0>>

InfoBytes(id) ==
    CASE id = 1   -> <<118, 101, 110, 100, 111, 114>>          \* "vendor"
      [] id = 2   -> <<112, 114, 111, 100, 117, 99, 116>>      \* "product"
      [] id = 3   -> <<115, 101, 114, 105, 97, 108>>           \* "serial"
      [] id = 4   -> <<50, 46, 48, 46, 48>>                    \* "2.0.0"
      [] id = 9   -> <<49, 46, 48, 46, 48>>                    \* "1.0.0"
      [] id = 240 -> <<1, 0>>
      [] id = 254 -> <<1>>
      [] id = 255 -> <<64, 0>>
      [] OTHER    -> << >>

-----------------------------------------------------------------------------
(* The command loop of poll.  response is the slice                        *)
(* &mut response_buffer[base..], so the Rust index i of response is the    *)
(* index base + i of response_buffer, and response.len() = 64 - base.      *)
(* An index outside the slice panics.                                      *)

ParseResult(status, response_length, buffer) ==
    [status |-> status, response_length |-> response_length, buffer |-> buffer]

\* One DAP_Info arm: the writes of lines 102-105, in order, each bounds
\* checked against response.len().
InfoFrame(buffer, base, response_length, response_bytes) ==
    LET slice_len == Len(buffer) - base
        n         == Len(response_bytes)
        b1        == Put(buffer, base + response_length, 0)
        b2        == Put(b1, base + response_length + 1, n % 256)
        b3        == CopyFromSlice(b2, base + response_length + 2, response_bytes)
    IN  IF response_length >= slice_len THEN [ok |-> FALSE, buffer |-> buffer]
        ELSE IF response_length + 1 >= slice_len THEN [ok |-> FALSE, buffer |-> b1]
        ELSE IF response_length + 2 + n > slice_len THEN [ok |-> FALSE, buffer |-> b2]
        ELSE [ok |-> TRUE, buffer |-> b3]

RECURSIVE CommandLoop(_, _, _, _)
CommandLoop(request, buffer, base, response_length) ==
    IF Len(request) = 0 THEN ParseResult("ok", response_length, buffer)
    ELSE IF request[1] # 0 THEN ParseResult("ok", response_length, buffer)
    ELSE IF Len(request) >= 2
         THEN LET fr  == InfoFrame(buffer, base, response_length, InfoBytes(request[2]))
                  inc == 2 + Len(InfoBytes(request[2]))
              IN  IF ~fr.ok THEN ParseResult("panic", response_length, fr.buffer)
                  ELSE CommandLoop(DropFirst(request, 2), fr.buffer,
                                   base + inc, response_length + inc)
    \* request = [0x00]: the arm does nothing, request is not advanced, and
    \* the loop condition stays true with the same state: no exit.
    ELSE ParseResult("hang", response_length, buffer)

-----------------------------------------------------------------------------
(* The endpoints.  A read or write returns at once: a packet / accepted,   *)
(* or Err(WouldBlock).                                                     *)

WouldBlock == [ok |-> FALSE, data |-> << >>]
ReadOk(packet) == [ok |-> TRUE, data |-> packet]

\* lines 72-76: result of the retry of the pending write
FlushIgnoringError(pending, buffer, accepted) ==
    IF pending = None
    THEN [returned |-> FALSE, pending |-> None, wrote |-> None, flush |-> "none"]
    ELSE IF accepted
    THEN [returned |-> FALSE, pending |-> None,
          wrote |-> Some(Prefix(buffer, pending[1])), flush |-> "ok"]
    ELSE [returned |-> FALSE, pending |-> pending, wrote |-> None, flush |-> "busy"]

FlushKeepsPending(pending, buffer, accepted) ==
    IF pending = None
    THEN [returned |-> FALSE, pending |-> None, wrote |-> None, flush |-> "none"]
    ELSE IF accepted
    THEN [returned |-> FALSE, pending |-> pending,
          wrote |-> Some(Prefix(buffer, pending[1])), flush |-> "ok"]
    ELSE [returned |-> TRUE, pending |-> pending, wrote |-> None, flush |-> "busy"]

FlushPending(pending, buffer, accepted) ==
    IF pending = None
    THEN [returned |-> FALSE, pending |-> None, wrote |-> None, flush |-> "none"]
    ELSE IF accepted
    THEN [returned |-> FALSE, pending |-> None,
          wrote |-> Some(Prefix(buffer, pending[1])), flush |-> "ok"]
    ELSE [returned |-> TRUE, pending |-> pending, wrote |-> None, flush |-> "busy"]

SendAlwaysPending(pending, response_length, accepted) ==
    Some(response_length)

\* lines 121-124: the write of the assembled response
SendResponse(pending, response_length, accepted) ==
    IF accepted THEN pending ELSE Some(response_length)

IoNone == [flush |-> "none", read |-> "none", read_pending |-> FALSE,
           send |-> "none", handed |-> None]

-----------------------------------------------------------------------------
(* CmsisDapInterface::poll, one call.  flushOk / sendOk: whether the IN    *)
(* endpoint accepts the write of line 73 / line 121; rd: what the OUT      *)
(* endpoint returns at line 83.                                            *)

PollIgnoringReadError(flushOk, rd, sendOk) ==
    /\ pc = "run"
    /\ UNCHANGED <<nest, reg, swd_vars, cdc_vars>>
    /\ LET fl  == FlushPending(pending_response_bytes, response_buffer, flushOk)
           in1 == IF fl.wrote = None THEN in_log ELSE Append(in_log, fl.wrote[1])
           res == CommandLoop(rd.data, response_buffer, 0, 0)
           \* &self.response_buffer[..response_length] panics past the end
           st  == IF res.status = "ok" /\ res.response_length > Len(res.buffer)
                  THEN "panic" ELSE res.status
           rsp == Prefix(res.buffer, res.response_length)
       IN  IF fl.returned
           THEN \* line 73: `?` returns the error, nothing else runs
                /\ io' = [IoNone EXCEPT !.flush = fl.flush]
                /\ UNCHANGED <<pc, response_buffer, pending_response_bytes,
                               out_log, in_log, resp_log, xfer>>
           ELSE IF ~rd.ok
           THEN \* the read error is dropped and an empty response is written
                /\ pending_response_bytes' = SendResponse(fl.pending, 0, sendOk)
                /\ in_log' = IF sendOk THEN Append(in1, << >>) ELSE in1
                /\ io' = [flush |-> fl.flush, read |-> "block", read_pending |-> FALSE,
                          send |-> IF sendOk THEN "ok" ELSE "busy",
                          handed |-> Some(<< >>)]
                /\ UNCHANGED <<pc, response_buffer, out_log, resp_log, xfer>>
           ELSE IF st # "ok"
           THEN \* the command loop never exits, or an index panics (panic_halt)
                /\ pc' = IF st = "hang" THEN "hung" ELSE "panicked"
                /\ response_buffer' = res.buffer
                /\ pending_response_bytes' = fl.pending
                /\ out_log' = Append(out_log, rd.data)
                /\ in_log' = in1
                /\ io' = [IoNone EXCEPT !.flush = fl.flush, !.read = "packet",
                                        !.read_pending = (fl.pending # None)]
                /\ UNCHANGED <<resp_log, xfer>>
           ELSE /\ response_buffer' = res.buffer
                /\ pending_response_bytes' =
                       SendResponse(fl.pending, res.response_length, sendOk)
                /\ out_log' = Append(out_log, rd.data)
                /\ in_log' = IF sendOk THEN Append(in1, rsp) ELSE in1
                /\ resp_log' = Append(resp_log, rsp)
                /\ io' = [flush |-> fl.flush, read |-> "packet",
                          read_pending |-> (fl.pending # None),
                          send |-> IF sendOk THEN "ok" ELSE "busy",
                          handed |-> Some(rsp)]
                /\ UNCHANGED <<pc, xfer>>


Poll(flushOk, rd, sendOk) ==
    /\ pc = "run"
    /\ UNCHANGED <<nest, reg, swd_vars, cdc_vars>>
    /\ LET fl  == FlushPending(pending_response_bytes, response_buffer, flushOk)
           in1 == IF fl.wrote = None THEN in_log ELSE Append(in_log, fl.wrote[1])
           res == CommandLoop(rd.data, response_buffer, 0, 0)
           \* &self.response_buffer[..response_length] panics past the end
           st  == IF res.status = "ok" /\ res.response_length > Len(res.buffer)
                  THEN "panic" ELSE res.status
           rsp == Prefix(res.buffer, res.response_length)
       IN  IF fl.returned
           THEN \* line 73: `?` returns the error, nothing else runs
                /\ io' = [IoNone EXCEPT !.flush = fl.flush]
                /\ UNCHANGED <<pc, response_buffer, pending_response_bytes,
                               out_log, in_log, resp_log, xfer>>
           ELSE IF ~rd.ok
           THEN \* line 83: `?` returns the error
                /\ pending_response_bytes' = fl.pending
                /\ in_log' = in1
                /\ io' = [IoNone EXCEPT !.flush = fl.flush, !.read = "block"]
                /\ UNCHANGED <<pc, response_buffer, out_log, resp_log, xfer>>
           ELSE IF st # "ok"
           THEN \* the command loop never exits, or an index panics (panic_halt)
                /\ pc' = IF st = "hang" THEN "hung" ELSE "panicked"
                /\ response_buffer' = res.buffer
                /\ pending_response_bytes' = fl.pending
                /\ out_log' = Append(out_log, rd.data)
                /\ in_log' = in1
                /\ io' = [IoNone EXCEPT !.flush = fl.flush, !.read = "packet",
                                        !.read_pending = (fl.pending # None)]
                /\ UNCHANGED <<resp_log, xfer>>
           ELSE /\ response_buffer' = res.buffer
                /\ pending_response_bytes' =
                       SendResponse(fl.pending, res.response_length, sendOk)
                /\ out_log' = Append(out_log, rd.data)
                /\ in_log' = IF sendOk THEN Append(in1, rsp) ELSE in1
                /\ resp_log' = Append(resp_log, rsp)
                /\ io' = [flush |-> fl.flush, read |-> "packet",
                          read_pending |-> (fl.pending # None),
                          send |-> IF sendOk THEN "ok" ELSE "busy",
                          handed |-> Some(rsp)]
                /\ UNCHANGED <<pc, xfer>>

-----------------------------------------------------------------------------
(* MS OS 2.0 descriptor writers.  A writer returns Result<usize> and       *)
(* leaves its writes in the buffer: [ok, len, buffer].  A closure          *)
(* FnOnce(&mut [u8]) -> Result<usize> is a function on buffers.            *)

U16Lo(v) == v % 256
U16Hi(v) == (v \div 256) % 256
\* u32_lo with the mask 0xfff
U32LoNarrowMask(v) == (v % 4096) % 65536
\* (v & 0xfffff) as u16
U32Lo(v) == (v % 1048576) % 65536
\* (v >> 16) as u16
U32Hi(v) == (v \div 65536) % 65536

Ok(len, buffer) == [ok |-> TRUE, len |-> len, buffer |-> buffer]
BufferOverflow(buffer) == [ok |-> FALSE, len |-> 0, buffer |-> buffer]

\* the header bytes 0..3 of every record: u16 length, u16 type
PutHeader(buffer, length, type) ==
    Put(Put(Put(Put(buffer, 0, U16Lo(length % 65536)),
                            1, U16Hi(length % 65536)),
                            2, U16Lo(type)),
                            3, U16Hi(type))

\* a backpatch that writes the length of the children without the header
BackpatchChildLength(hdr, length, r, at) ==
    LET merged == Prefix(hdr, length) \o r.buffer
        total  == r.len + length
    IN  IF ~r.ok THEN BufferOverflow(merged)
        ELSE Ok(total, Put(Put(merged, at, U16Lo(r.len % 65536)),
                                       at + 1, U16Hi(r.len % 65536)))

\* let total_length = f(&mut buffer[length..])? + length; then the backpatch
\* of total_length at bytes at, at + 1
Backpatch(hdr, length, r, at) ==
    LET merged == Prefix(hdr, length) \o r.buffer
        total  == r.len + length
    IN  IF ~r.ok THEN BufferOverflow(merged)
        ELSE Ok(total, Put(Put(merged, at, U16Lo(total % 65536)),
                                       at + 1, U16Hi(total % 65536)))

write_descriptor_set(buffer, windows_version, f) ==
    IF Len(buffer) < 10 THEN BufferOverflow(buffer)
    ELSE LET h0  == PutHeader(buffer, 10, MS_OS_20_SET_HEADER_DESCRIPTOR)
             h4  == Put(h0, 4, U16Lo(U32Lo(windows_version)))
             h5  == Put(h4, 5, U16Hi(U32Lo(windows_version)))
             h6  == Put(h5, 6, U16Lo(U32Hi(windows_version)))
             hdr == Put(h6, 7, U16Hi(U32Hi(windows_version)))
         IN  Backpatch(hdr, 10, f[DropFirst(hdr, 10)], 8)

write_configuration_subset(buffer, f) ==
    IF Len(buffer) < 8 THEN BufferOverflow(buffer)
    ELSE LET h0  == PutHeader(buffer, 8, MS_OS_20_SUBSET_HEADER_CONFIGURATION)
             hdr == Put(Put(h0, 4, 0), 5, 0)
         IN  Backpatch(hdr, 8, f[DropFirst(hdr, 8)], 6)

write_function_subset(buffer, first_interface_number, f) ==
    IF Len(buffer) < 8 THEN BufferOverflow(buffer)
    ELSE LET h0  == PutHeader(buffer, 8, MS_OS_20_SUBSET_HEADER_FUNCTION)
             hdr == Put(Put(h0, 4, first_interface_number), 5, 0)
         IN  Backpatch(hdr, 8, f[DropFirst(hdr, 8)], 6)

write_compatible_id_unchecked(buffer, compatible_id, sub_compatible_id) ==
    IF Len(buffer) < 4 THEN BufferOverflow(buffer)
    ELSE IF Len(buffer) < 20
    THEN BufferOverflow(PutHeader(buffer, 20, MS_OS_20_FEATURE_COMPATIBLE_ID))
    ELSE LET h0 == PutHeader(buffer, 20, MS_OS_20_FEATURE_COMPATIBLE_ID)
             b1 == CopyFromSlice(h0, 4, compatible_id)
             b2 == CopyFromSlice(b1, 12, sub_compatible_id)
         IN  Ok(20, b2)

write_compatible_id(buffer, compatible_id, sub_compatible_id) ==
    IF Len(buffer) < 20 THEN BufferOverflow(buffer)
    ELSE LET h0 == PutHeader(buffer, 20, MS_OS_20_FEATURE_COMPATIBLE_ID)
             b1 == CopyFromSlice(h0, 4, compatible_id)
             b2 == CopyFromSlice(b1, 12, sub_compatible_id)
         IN  Ok(20, b2)

\* write_registry_property without the write of the data length
write_registry_property_no_data_len(buffer, property_name, property_type, property_data) ==
    LET name_len == Len(property_name)
        data_len == Len(property_data)
        length   == name_len + data_len + 10
    IN  IF Len(buffer) < length THEN BufferOverflow(buffer)
        ELSE LET h0 == PutHeader(buffer, length, MS_OS_20_FEATURE_REG_PROPERTY)
                 b1 == CopyFromSlice(h0, 4, <<U16Lo(property_type), U16Hi(property_type)>>)
                 b2 == CopyFromSlice(b1, 6, <<U16Lo(name_len % 65536),
                                              U16Hi(name_len % 65536)>>)
                 b3 == CopyFromSlice(b2, 8, property_name)
                 b5 == CopyFromSlice(b3, 8 + name_len + 2, property_data)
             IN  Ok(length, b5)

write_registry_property_short(buffer, property_name, property_type, property_data) ==
    LET name_len == Len(property_name)
        data_len == Len(property_data)
        length   == name_len + data_len + 8
    IN  IF Len(buffer) < length THEN BufferOverflow(buffer)
        ELSE LET h0 == PutHeader(buffer, length, MS_OS_20_FEATURE_REG_PROPERTY)
                 b1 == CopyFromSlice(h0, 4, <<U16Lo(property_type), U16Hi(property_type)>>)
                 b2 == CopyFromSlice(b1, 6, <<U16Lo(name_len % 65536),
                                              U16Hi(name_len % 65536)>>)
                 b3 == CopyFromSlice(b2, 8, property_name)
             IN  Ok(length, b3)

write_registry_property(buffer, property_name, property_type, property_data) ==
    LET name_len == Len(property_name)
        data_len == Len(property_data)
        length   == name_len + data_len + 10
    IN  IF Len(buffer) < length THEN BufferOverflow(buffer)
        ELSE LET h0 == PutHeader(buffer, length, MS_OS_20_FEATURE_REG_PROPERTY)
                 b1 == CopyFromSlice(h0, 4, <<U16Lo(property_type), U16Hi(property_type)>>)
                 b2 == CopyFromSlice(b1, 6, <<U16Lo(name_len % 65536),
                                              U16Hi(name_len % 65536)>>)
                 b3 == CopyFromSlice(b2, 8, property_name)
                 b4 == CopyFromSlice(b3, 8 + name_len, <<U16Lo(data_len % 65536),
                                                         U16Hi(data_len % 65536)>>)
                 b5 == CopyFromSlice(b4, 8 + name_len + 2, property_data)
             IN  Ok(length, b5)

\* buf[i * 2] = b[i]; buf[i * 2 + 1] = 0 for i in 0..N
fill_utf16(buf, b) ==
    [k \in 1..Len(buf) |->
        IF k > 2 * Len(b) THEN buf[k]
        ELSE IF k % 2 = 1 THEN b[(k + 1) \div 2] ELSE 0]

\* b"DeviceInterfaceGUID\0"
PropertyNameAscii ==
    <<68, 101, 118, 105, 99, 101, 73, 110, 116, 101, 114, 102, 97, 99, 101,
      71, 85, 73, 68, 0>>
\* b"{A5DCBF10-6530-11D2-901F-00C04FB951ED}\0"
PropertyDataAscii ==
    <<123, 65, 53, 68, 67, 66, 70, 49, 48, 45, 54, 53, 51, 48, 45, 49, 49, 68,
      50, 45, 57, 48, 49, 70, 45, 48, 48, 67, 48, 52, 70, 66, 57, 53, 49, 69,
      68, 125, 0>>
\* b"WINUSB\0\0"
CompatibleId == <<87, 73, 78, 85, 83, 66, 0, 0>>

WindowsVersion == 100859904     \* 0x06030000
InterfaceNumber == 0            \* alloc.interface() of the first interface

\* the innermost closure of control_in (lines 183-209)
WriteFeatures[buffer \in Seq(Byte)] ==
    LET property_name == fill_utf16(Zeros(Len(PropertyNameAscii) * 2), PropertyNameAscii)
        property_data == fill_utf16(Zeros(Len(PropertyDataAscii) * 2), PropertyDataAscii)
        r1 == write_compatible_id(buffer, CompatibleId, Zeros(8))
        r2 == write_registry_property(DropFirst(r1.buffer, r1.len), property_name,
                                      RegPropertyType_String, property_data)
    IN  IF ~r1.ok THEN BufferOverflow(r1.buffer)
        ELSE IF ~r2.ok THEN BufferOverflow(Prefix(r1.buffer, r1.len) \o r2.buffer)
        ELSE Ok(r1.len + r2.len, Prefix(r1.buffer, r1.len) \o r2.buffer)

WriteFunction[buffer \in Seq(Byte)] == write_function_subset(buffer, InterfaceNumber, WriteFeatures)
WriteConfiguration[buffer \in Seq(Byte)] == write_configuration_subset(buffer, WriteFunction)

\* the closure handed to xfer.accept (lines 180-212)
ComposeDescriptorSet(buffer) ==
    write_descriptor_set(buffer, WindowsVersion, WriteConfiguration)

\* the payload of the platform capability of get_bos_descriptors
BosCapability ==
    <<0,
      223, 96, 221, 216,  137, 69, 199, 76,  156, 210, 101, 157,  158, 100, 138, 159,
      0, 0, 3, 6,
      174, 0,
      MS_VENDOR_CODE,
      0>>

-----------------------------------------------------------------------------
(* UsbClass::control_in.  req: the setup packet; len, fill: the length and *)
(* prior content of the transfer buffer handed to the closure by           *)
(* xfer.accept.  accept returns the closure's error, which unwrap() turns  *)
(* into a panic.                                                           *)

ControlRequest(request_type, request, value, index) ==
    [request_type |-> request_type, request |-> request,
     value |-> value, index |-> index]

IsDescriptorSetRequestAnyIndex(req) ==
    /\ req.request_type = "Vendor"
    /\ req.request = MS_VENDOR_CODE
    /\ req.value = 0

IsDescriptorSetRequest(req) ==
    /\ req.request_type = "Vendor"
    /\ req.request = MS_VENDOR_CODE
    /\ req.value = 0
    /\ req.index = 7

ControlIn(req, len, fill) ==
    /\ pc = "run"
    /\ LET r == ComposeDescriptorSet([i \in 1..len |-> fill])
       IN  IF ~IsDescriptorSetRequest(req)
           THEN /\ xfer' = [state |-> "untouched", req |-> req, buf_len |-> len,
                          fill |-> fill, data |-> << >>]
                /\ pc' = pc
           ELSE IF r.ok
           THEN /\ xfer' = [state |-> "accepted", req |-> req, buf_len |-> len,
                          fill |-> fill, data |-> Prefix(r.buffer, r.len)]
                /\ pc' = pc
           ELSE /\ xfer' = [state |-> "failed", req |-> req, buf_len |-> len,
                          fill |-> fill, data |-> r.buffer]
                /\ pc' = "panicked"
    /\ UNCHANGED <<response_buffer, pending_response_bytes, out_log, in_log,
                   resp_log, io>>
    /\ UNCHANGED <<nest, reg, swd_vars, cdc_vars>>

-----------------------------------------------------------------------------
(* The descriptor writers called with any feature payload and any          *)
(* windows_version: they take the payload as impl FnOnce(&mut [u8]) ->     *)
(* Result<usize, UsbError>.                                                *)

MaxFeature == 20

NestNone ==
    [state |-> "none", windows_version |-> 0, n |-> 0, buf_len |-> 0,
     returned |-> << >>, data |-> << >>]

\* a feature closure that consumes n bytes of its buffer
FeaturePayload(n) ==
    [buffer \in Seq(Byte) |->
        IF Len(buffer) < n THEN BufferOverflow(buffer)
        ELSE Ok(n, CopyFromSlice(buffer, 0, [i \in 1..n |-> 255]))]

NestFunction(n) ==
    [buffer \in Seq(Byte) |->
        write_function_subset(buffer, InterfaceNumber, FeaturePayload(n))]

NestConfiguration(n) ==
    [buffer \in Seq(Byte) |->
        write_configuration_subset(buffer, NestFunction(n))]

NestDescriptorSet(buffer, windows_version, n) ==
    write_descriptor_set(buffer, windows_version, NestConfiguration(n))

\* values of windows_version up to 0x7fffffff: every byte distinct, all
\* ones, bits 16..19 set or clear
WindowsVersions ==
    { 0, 1, 65535, 65536, 983040, 1048575, 1048576, 100859904, 305419896,
      1073741824, 2147418112, 2147483647 }

NestBufLens(n) == { 9, 17, 25 + n, 26 + n, 30 + n }

\* one call of the writers on a zeroed buffer of buf_len bytes; returned
\* holds what the set, configuration, function and feature writers return
Compose(windows_version, n, buf_len) ==
    /\ nest.state = "none"
    /\ LET b0 == Zeros(buf_len)
           r  == NestDescriptorSet(b0, windows_version, n)
       IN  nest' = [state |-> IF r.ok THEN "ok" ELSE "overflow",
                    windows_version |-> windows_version,
                    n |-> n,
                    buf_len |-> buf_len,
                    returned |->
                        IF r.ok
                        THEN << r.len,
                                NestConfiguration(n)[DropFirst(b0, 10)].len,
                                NestFunction(n)[DropFirst(b0, 18)].len,
                                FeaturePayload(n)[DropFirst(b0, 26)].len >>
                        ELSE << >>,
                    data |-> r.buffer]
    /\ UNCHANGED <<dap_vars, reg, swd_vars, cdc_vars>>

NestStep ==
    \E windows_version \in WindowsVersions, n \in 0..MaxFeature :
        \E buf_len \in NestBufLens(n) : Compose(windows_version, n, buf_len)

-----------------------------------------------------------------------------
(* write_registry_property called with any name, type and value, and with  *)
(* the name and value control_in makes with fill_utf16.                    *)

MaxProp == 2

RegNone ==
    [state |-> "none", caller |-> "none", property_name |-> << >>,
     property_type |-> 0, property_data |-> << >>, buf_len |-> 0,
     returned |-> 0, buffer |-> << >>]

\* the discriminants of enum RegPropertyType, Reserved .. MultiString
RegPropertyTypes == 0..7

\* names and values of up to MaxProp bytes
PropBytes == {0, 65, 255}
Props == UNION { [1..k -> PropBytes] : k \in 0..MaxProp }

\* let mut property_name = [0u8; N * 2]; fill_utf16(&mut property_name, ..)
ControlInPropertyName ==
    fill_utf16(Zeros(Len(PropertyNameAscii) * 2), PropertyNameAscii)
ControlInPropertyData ==
    fill_utf16(Zeros(Len(PropertyDataAscii) * 2), PropertyDataAscii)

\* buffers one byte short, exact, and with room
RegBufLens(n, d) == { n + d + 9, n + d + 10, n + d + 13 }

\* one call on a buffer of buf_len bytes that holds 0xaa everywhere
RegistryProperty(caller, property_name, property_type, property_data, buf_len) ==
    /\ reg.state = "none"
    /\ LET r == write_registry_property([i \in 1..buf_len |-> 170],
                    property_name, property_type, property_data)
       IN  reg' = [state |-> IF r.ok THEN "ok" ELSE "overflow",
                   caller |-> caller,
                   property_name |-> property_name,
                   property_type |-> property_type,
                   property_data |-> property_data,
                   buf_len |-> buf_len,
                   returned |-> r.len,
                   buffer |-> r.buffer]
    /\ UNCHANGED <<dap_vars, nest, swd_vars, cdc_vars>>

RegistryStep ==
    \E property_name \in Props, property_data \in Props :
        \E property_type \in RegPropertyTypes,
           buf_len \in RegBufLens(Len(property_name), Len(property_data)) :
            RegistryProperty("any", property_name, property_type,
                             property_data, buf_len)

\* the call of control_in's closure
ControlInRegistryStep ==
    \E buf_len \in RegBufLens(Len(ControlInPropertyName),
                              Len(ControlInPropertyData)) :
        RegistryProperty("control_in", ControlInPropertyName,
                         RegPropertyType_String, ControlInPropertyData, buf_len)

RegNext == RegistryStep \/ ControlInRegistryStep

-----------------------------------------------------------------------------
(* swdio.rs: the SwdIo trait.  An operation that takes config by shared    *)
(* reference (&SwdIoConfig) or not at all cannot write it; swj_clock takes *)
(* &mut SwdIoConfig and may store any value.                               *)

MaxCycles == 2

SwdIoConfig(clock_wait_cycles, idle_cycles, turn_around_cycles, always_generate_data_phase) ==
    [clock_wait_cycles |-> clock_wait_cycles,
     idle_cycles |-> idle_cycles,
     turn_around_cycles |-> turn_around_cycles,
     always_generate_data_phase |-> always_generate_data_phase]

SwdIoConfigs ==
    [clock_wait_cycles : 0..MaxCycles,
     idle_cycles : 0..MaxCycles,
     turn_around_cycles : 0..MaxCycles,
     always_generate_data_phase : BOOLEAN]

\* the categories of DapError a transfer fails with
DapErrors == {"no_ack", "wait", "fault", "parity"}

SwdOp(op, result) ==
    /\ swd_op' = [op |-> op, result |-> result]
    /\ UNCHANGED <<dap_vars, nest, reg, cdc_vars>>

connect == SwdOp("connect", "done") /\ UNCHANGED config

disconnect == SwdOp("disconnect", "done") /\ UNCHANGED config

swj_clock ==
    \E new_config \in SwdIoConfigs, result \in {"ok"} \cup DapErrors :
        /\ SwdOp("swj_clock", result)
        /\ config' = new_config

swj_sequence == SwdOp("swj_sequence", "done") /\ UNCHANGED config

swd_read_sequence == SwdOp("swd_read_sequence", "done") /\ UNCHANGED config

swd_write_sequence == SwdOp("swd_write_sequence", "done") /\ UNCHANGED config

swd_transfer_writes_config ==
    \E result \in {"ok"} \cup DapErrors :
        /\ SwdOp("swd_transfer", result)
        /\ config' = IF result = "wait"
                     THEN [config EXCEPT !.idle_cycles = 0]
                     ELSE config

swd_transfer ==
    \E result \in {"ok"} \cup DapErrors :
        /\ SwdOp("swd_transfer", result)
        /\ UNCHANGED config

enable_output == SwdOp("enable_output", "done") /\ UNCHANGED config

disable_output == SwdOp("disable_output", "done") /\ UNCHANGED config

SwdNext ==
    \/ connect
    \/ disconnect
    \/ swj_clock
    \/ swj_sequence
    \/ swd_read_sequence
    \/ swd_write_sequence
    \/ swd_transfer
    \/ enable_output
    \/ disable_output

-----------------------------------------------------------------------------
(* rp2040_cdc/src/main.rs: the loopback loop of main and the USBCTRL_IRQ   *)
(* handler.  The handler preempts main between two steps of main and runs  *)
(* to its return before main goes on.  The k-th byte the port delivers     *)
(* has the value k.                                                        *)

MaxBytes == 4
MaxChunk == 2

Cells == {"USB_DEVICE", "USB_SERIAL"}

CdcIoNone == [read |-> "none", write |-> "none"]

\* cortex_m::interrupt::free enters with interrupts disabled
InterruptFreeKeepsMask(mask) == mask
InterruptFree(mask) == TRUE

\* a write that clears pending whatever was written
AfterWriteClears(bytes_written, bytes_to_write, bytes_written_now) == None
\* the update of pending_bytes_to_write after Ok(bytes_written_now)
AfterWrite(bytes_written, bytes_to_write, bytes_written_now) ==
    LET bytes_written_1 == bytes_written + bytes_written_now
    IN  IF bytes_written_1 = bytes_to_write
        THEN None
        ELSE Some(<<bytes_written_1, bytes_to_write>>)

MainRuns == irq_pc = "idle"

\* the commented-out unmask of USBCTRL_IRQ: unmask = FALSE is the file as
\* it stands, unmask = TRUE the file with these lines compiled in
Setup(unmask) ==
    /\ MainRuns /\ main_pc = "setup"
    /\ nvic_enabled' = unmask
    /\ primask' = FALSE
    /\ main_pc' = "enter1"
    /\ UNCHANGED <<irq_pc, borrow, cdc_buffer, pending_bytes_to_write,
                   rx_total, tx_log, cdc_io>>
    /\ UNCHANGED <<dap_vars, nest, reg, swd_vars>>

MainEnterLoopback ==
    /\ MainRuns /\ main_pc = "enter1"
    /\ primask' = InterruptFree(primask)
    /\ main_pc' = "read"
    /\ UNCHANGED <<irq_pc, nvic_enabled, borrow, cdc_buffer,
                   pending_bytes_to_write, rx_total, tx_log, cdc_io>>
    /\ UNCHANGED <<dap_vars, nest, reg, swd_vars>>

\* if pending_bytes_to_write.is_none() { if let Ok(bytes_read) = read(..) }
ReadSerial(rd_ok, bytes_read) ==
    /\ MainRuns /\ main_pc = "read"
    /\ UNCHANGED <<irq_pc, primask, nvic_enabled, borrow, tx_log>>
    /\ UNCHANGED <<dap_vars, nest, reg, swd_vars>>
    /\ IF pending_bytes_to_write # None
       THEN /\ main_pc' = "write"
            /\ cdc_io' = [read |-> "skipped", write |-> "none"]
            /\ UNCHANGED <<cdc_buffer, pending_bytes_to_write, rx_total>>
       ELSE IF borrow["USB_SERIAL"] # "none"
       THEN /\ main_pc' = "panicked"
            /\ UNCHANGED <<cdc_buffer, pending_bytes_to_write, rx_total, cdc_io>>
       ELSE IF ~rd_ok
       THEN /\ main_pc' = "write"
            /\ cdc_io' = [read |-> "err", write |-> "none"]
            /\ UNCHANGED <<cdc_buffer, pending_bytes_to_write, rx_total>>
       ELSE /\ main_pc' = "write"
            /\ cdc_buffer' = CopyFromSlice(cdc_buffer, 0,
                                 [i \in 1..bytes_read |-> rx_total + i])
            /\ rx_total' = rx_total + bytes_read
            /\ pending_bytes_to_write' = Some(<<0, bytes_read>>)
            /\ cdc_io' = [read |-> "ok", write |-> "none"]

\* if let Some((bytes_written, bytes_to_write)) = pending_bytes_to_write
\*   { if let Ok(bytes_written_now) = write(&buffer[bytes_written..bytes_to_write]) }
WriteSerial(wr_ok, bytes_written_now) ==
    /\ MainRuns /\ main_pc = "write"
    /\ UNCHANGED <<irq_pc, primask, nvic_enabled, borrow, cdc_buffer, rx_total>>
    /\ UNCHANGED <<dap_vars, nest, reg, swd_vars>>
    /\ IF pending_bytes_to_write = None
       THEN /\ main_pc' = "exit1"
            /\ cdc_io' = [cdc_io EXCEPT !.write = "skipped"]
            /\ UNCHANGED <<pending_bytes_to_write, tx_log>>
       ELSE IF borrow["USB_SERIAL"] # "none"
       THEN /\ main_pc' = "panicked"
            /\ UNCHANGED <<pending_bytes_to_write, tx_log, cdc_io>>
       ELSE IF ~wr_ok
       THEN /\ main_pc' = "exit1"
            /\ cdc_io' = [cdc_io EXCEPT !.write = "err"]
            /\ UNCHANGED <<pending_bytes_to_write, tx_log>>
       ELSE LET bytes_written == pending_bytes_to_write[1][1]
                bytes_to_write == pending_bytes_to_write[1][2]
            IN  /\ bytes_written_now <= bytes_to_write - bytes_written
                /\ main_pc' = "exit1"
                /\ tx_log' = tx_log \o SubSeq(cdc_buffer, bytes_written + 1,
                                               bytes_written + bytes_written_now)
                /\ pending_bytes_to_write' =
                       AfterWrite(bytes_written, bytes_to_write, bytes_written_now)
                /\ cdc_io' = [cdc_io EXCEPT !.write =
                       IF bytes_written + bytes_written_now = bytes_to_write
                       THEN "complete" ELSE "partial"]

\* the return of interrupt::free: interrupts were enabled at its entry
MainExitLoopback ==
    /\ MainRuns /\ main_pc = "exit1"
    /\ primask' = FALSE
    /\ main_pc' = "enter2"
    /\ UNCHANGED <<irq_pc, nvic_enabled, borrow, cdc_buffer,
                   pending_bytes_to_write, rx_total, tx_log, cdc_io>>
    /\ UNCHANGED <<dap_vars, nest, reg, swd_vars>>

MainEnterPoll ==
    /\ MainRuns /\ main_pc = "enter2"
    /\ primask' = InterruptFree(primask)
    /\ main_pc' = "poll_borrow"
    /\ UNCHANGED <<irq_pc, nvic_enabled, borrow, cdc_buffer,
                   pending_bytes_to_write, rx_total, tx_log, cdc_io>>
    /\ UNCHANGED <<dap_vars, nest, reg, swd_vars>>

\* usb_device.borrow_mut() and usb_serial.borrow_mut(): a RefCell that is
\* already borrowed panics
BorrowBoth(who) ==
    IF \E cell \in Cells : borrow[cell] # "none"
    THEN [ok |-> FALSE, borrow |-> borrow]
    ELSE [ok |-> TRUE, borrow |-> [cell \in Cells |-> who]]

Release(who) == [cell \in Cells |-> IF borrow[cell] = who THEN "none" ELSE borrow[cell]]

MainBorrowPoll ==
    /\ MainRuns /\ main_pc = "poll_borrow"
    /\ borrow' = BorrowBoth("main").borrow
    /\ main_pc' = IF BorrowBoth("main").ok THEN "poll" ELSE "panicked"
    /\ UNCHANGED <<irq_pc, primask, nvic_enabled, cdc_buffer,
                   pending_bytes_to_write, rx_total, tx_log, cdc_io>>
    /\ UNCHANGED <<dap_vars, nest, reg, swd_vars>>

\* usb_device.poll(&mut [usb_serial]) returns and the borrows are dropped
MainPoll ==
    /\ MainRuns /\ main_pc = "poll"
    /\ borrow' = Release("main")
    /\ main_pc' = "exit2"
    /\ UNCHANGED <<irq_pc, primask, nvic_enabled, cdc_buffer,
                   pending_bytes_to_write, rx_total, tx_log, cdc_io>>
    /\ UNCHANGED <<dap_vars, nest, reg, swd_vars>>

MainExitPoll ==
    /\ MainRuns /\ main_pc = "exit2"
    /\ primask' = FALSE
    /\ main_pc' = "enter1"
    /\ UNCHANGED <<irq_pc, nvic_enabled, borrow, cdc_buffer,
                   pending_bytes_to_write, rx_total, tx_log, cdc_io>>
    /\ UNCHANGED <<dap_vars, nest, reg, swd_vars>>

IrqFrame ==
    /\ UNCHANGED <<main_pc, nvic_enabled, cdc_buffer, pending_bytes_to_write,
                   rx_total, tx_log, cdc_io>>
    /\ UNCHANGED <<dap_vars, nest, reg, swd_vars>>

\* the interrupt is taken: unmasked in the NVIC and PRIMASK clear
IrqTaken ==
    /\ irq_pc = "idle" /\ nvic_enabled /\ ~primask
    /\ main_pc \notin {"setup", "panicked"}
    /\ irq_pc' = "enter"
    /\ UNCHANGED <<primask, borrow>>
    /\ IrqFrame

IrqEnterFree ==
    /\ irq_pc = "enter"
    /\ primask' = InterruptFree(primask)
    /\ irq_pc' = "borrow"
    /\ UNCHANGED borrow
    /\ IrqFrame

IrqBorrow ==
    /\ irq_pc = "borrow"
    /\ borrow' = BorrowBoth("irq").borrow
    /\ irq_pc' = IF BorrowBoth("irq").ok THEN "poll" ELSE "panicked"
    /\ UNCHANGED primask
    /\ IrqFrame

IrqPoll ==
    /\ irq_pc = "poll"
    /\ borrow' = Release("irq")
    /\ irq_pc' = "exit"
    /\ UNCHANGED primask
    /\ IrqFrame

IrqReturn ==
    /\ irq_pc = "exit"
    /\ primask' = FALSE
    /\ irq_pc' = "idle"
    /\ UNCHANGED borrow
    /\ IrqFrame

CdcNext ==
    \/ \E unmask \in BOOLEAN : Setup(unmask)
    \/ MainEnterLoopback
    \/ \E rd_ok \in BOOLEAN, bytes_read \in 0..MaxChunk :
           /\ rx_total + bytes_read <= MaxBytes
           /\ ReadSerial(rd_ok, bytes_read)
    \/ \E wr_ok \in BOOLEAN, bytes_written_now \in 0..MaxChunk :
           WriteSerial(wr_ok, bytes_written_now)
    \/ MainExitLoopback
    \/ MainEnterPoll
    \/ MainBorrowPoll
    \/ MainPoll
    \/ MainExitPoll
    \/ IrqTaken
    \/ IrqEnterFree
    \/ IrqBorrow
    \/ IrqPoll
    \/ IrqReturn

-----------------------------------------------------------------------------
(* Inputs                                                                  *)

\* packets the host sends in Spec
Packets ==
    { << >>, <<0, 1>>, <<0, 254>>, <<0, 119>>, <<0, 4, 0, 9>>, <<0, 1, 5>>,
      <<5>>, <<0>>, <<0, 1, 0, 2, 0, 3, 0, 1, 0, 2>> }

Reads == {WouldBlock} \cup {ReadOk(p) : p \in Packets}

\* setup packets of the control requests: the descriptor-set request and
\* the requests that differ from it in one field
DescriptorSetRequest == ControlRequest("Vendor", MS_VENDOR_CODE, 0, 7)
ControlRequests ==
    { DescriptorSetRequest,
      ControlRequest("Standard", MS_VENDOR_CODE, 0, 7),
      ControlRequest("Vendor", 0, 0, 7),
      ControlRequest("Vendor", MS_VENDOR_CODE, 1, 7),
      ControlRequest("Vendor", MS_VENDOR_CODE, 0, 0) }
\* lengths and prior content of the transfer buffer in Spec
CtrlBufLens == {9, 128, 174, 256}
CtrlFill == {0, 170}

-----------------------------------------------------------------------------

Init ==
    /\ pc = "run"
    /\ response_buffer = Zeros(BufferSize)
    /\ pending_response_bytes = None
    /\ out_log = << >>
    /\ in_log = << >>
    /\ resp_log = << >>
    /\ io = IoNone
    /\ xfer = [state |-> "none", req |-> ControlRequest("None", 0, 0, 0),
               buf_len |-> 0, fill |-> 0, data |-> << >>]
    /\ nest = NestNone
    /\ reg = RegNone
    /\ config = SwdIoConfig(0, 0, 1, FALSE)
    /\ swd_op = [op |-> "none", result |-> "none"]
    /\ main_pc = "setup"
    /\ irq_pc = "idle"
    /\ primask = FALSE
    /\ nvic_enabled = FALSE
    /\ borrow = [cell \in Cells |-> "none"]
    /\ cdc_buffer = Zeros(BufferSize)
    /\ pending_bytes_to_write = None
    /\ rx_total = 0
    /\ tx_log = << >>
    /\ cdc_io = CdcIoNone

PollStep ==
    \E flushOk \in BOOLEAN, rd \in Reads, sendOk \in BOOLEAN :
        /\ rd.ok => Len(out_log) < MaxPackets
        /\ Poll(flushOk, rd, sendOk)

ControlStep ==
    \E req \in ControlRequests, len \in CtrlBufLens :
        /\ req # DescriptorSetRequest => len = 128
        /\ ControlIn(req, len, 170)

Next == PollStep \/ ControlStep

Spec == Init /\ [][Next]_vars

\* the descriptor writers alone, the SwdIo operations alone, rp2040_cdc alone
SpecNest == Init /\ [][NestStep]_vars

SpecSwd == Init /\ [][SwdNext]_vars

SpecCdc == Init /\ [][CdcNext]_vars

\* write_registry_property alone
SpecReg == Init /\ [][RegNext]_vars

-----------------------------------------------------------------------------
(* SpecInfo: one poll call on a fresh interface, for every packet made of  *)
(* up to MaxFrames DAP_Info frames and a tail, and for every single frame  *)
(* [0x00, id] with id in 0..255.                                           *)

InfoIds == {2, 4, 9, 119}
Tails == { << >>, <<0>>, <<5>>, <<5, 0, 1>> }

RECURSIVE FramePackets(_)
FramePackets(k) ==
    IF k = 0 THEN { << >> }
    ELSE { <<0, id>> \o p : id \in InfoIds, p \in FramePackets(k - 1) }

InfoPackets ==
    { f \o t : f \in UNION { FramePackets(k) : k \in 0..MaxFrames }, t \in Tails }
    \cup { <<0, id>> : id \in Byte }

InfoStep ==
    /\ out_log = << >>
    /\ \E p \in InfoPackets, sendOk \in BOOLEAN : Poll(TRUE, ReadOk(p), sendOk)

SpecInfo == Init /\ [][InfoStep]_vars

-----------------------------------------------------------------------------
(* SpecDesc: control-IN requests with every transfer buffer length         *)
(* 0..MaxCtrlBuf and two prior contents of the buffer.                     *)

DescStep ==
    \E req \in ControlRequests, len \in 0..MaxCtrlBuf, fill \in CtrlFill :
        /\ req # DescriptorSetRequest => (len = MaxCtrlBuf /\ fill = 0)
        /\ ControlIn(req, len, fill)

SpecDesc == Init /\ [][DescStep]_vars

-----------------------------------------------------------------------------
(* LiveSpec: main calls poll again and again (main.rs 72-77) and the IN    *)
(* endpoint, once the host has collected the previous packet, accepts the  *)
(* retried write.                                                          *)

FlushAccepted ==
    /\ pending_response_bytes # None
    /\ \E rd \in Reads, sendOk \in BOOLEAN :
           /\ rd.ok => Len(out_log) < MaxPackets
           /\ Poll(TRUE, rd, sendOk)

LiveSpec == Init /\ [][Next]_vars /\ SF_vars(FlushAccepted)

-----------------------------------------------------------------------------
(* Reference definitions of the properties                                 *)

\* the packet of the last read
LastPacket == out_log[Len(out_log)]

\* p is k complete DAP_Info frames [0x00, id_1, ..., 0x00, id_k]
IsFrames(p) ==
    /\ Len(p) % 2 = 0
    /\ \A i \in 1..Len(p) : i % 2 = 1 => p[i] = 0

\* the reply frames {0, len, payload} of the complete DAP_Info frames at the
\* head of p, concatenated in request order
RECURSIVE ReplyFrames(_)
ReplyFrames(p) ==
    IF Len(p) < 2 \/ p[1] # 0 THEN << >>
    ELSE <<0, Len(InfoBytes(p[2]))>> \o InfoBytes(p[2]) \o ReplyFrames(DropFirst(p, 2))

\* the DAP_Info table
CannedValue(id) ==
    IF id = 1 THEN <<118, 101, 110, 100, 111, 114>>
    ELSE IF id = 2 THEN <<112, 114, 111, 100, 117, 99, 116>>
    ELSE IF id = 3 THEN <<115, 101, 114, 105, 97, 108>>
    ELSE IF id = 4 THEN <<50, 46, 48, 46, 48>>
    ELSE IF id = 9 THEN <<49, 46, 48, 46, 48>>
    ELSE IF id = 240 THEN <<1, 0>>
    ELSE IF id = 254 THEN <<1>>
    ELSE IF id = 255 THEN <<64, 0>>
    ELSE << >>

\* a little-endian u16 at the Rust index a
U16At(buffer, a) == buffer[a + 1] + 256 * buffer[a + 2]

-----------------------------------------------------------------------------
(* C1: while a response is pending and the IN endpoint refuses the write   *)
(* (no write is accepted in the step), a poll call leaves                  *)
(* pending_response_bytes and the first n bytes of response_buffer         *)
(* unchanged and reads no OUT packet.                                      *)
C1_BusyKeepsPending ==
    [][ (pending_response_bytes # None /\ in_log' = in_log)
        => /\ pending_response_bytes' = pending_response_bytes
           /\ Prefix(response_buffer', pending_response_bytes[1])
                 = Prefix(response_buffer, pending_response_bytes[1])
           /\ out_log' = out_log
           /\ resp_log' = resp_log ]_vars

\* a poll call has retried a pending response and was refused
C1_Witness ==
    /\ pending_response_bytes # None
    /\ pending_response_bytes[1] > 0
    /\ io.flush = "busy"
    /\ Len(resp_log) = Len(in_log) + 1

(* C2: for a packet of k >= 2 complete DAP_Info frames whose replies fit   *)
(* in 64 bytes, the bytes handed to the IN endpoint are the k reply frames *)
(* concatenated in request order.                                          *)
C2_ConcatenatedReplies ==
    (/\ io.read = "packet"
     /\ IsFrames(LastPacket)
     /\ Len(LastPacket) >= 4
     /\ Len(ReplyFrames(LastPacket)) <= BufferSize)
    => io.handed = Some(ReplyFrames(LastPacket))

(* C3: every poll call returns, whatever packet it read.                   *)
C3_PollReturns == pc # "hung"

(* C4: at most one response is unflushed, a packet is read only while      *)
(* pending_response_bytes is None, and the writes accepted by the IN       *)
(* endpoint are the assembled responses, each once, in the order their     *)
(* request packets were read.                                              *)
C4_OneResponseInOrder ==
    /\ Len(resp_log) - Len(in_log) \in {0, 1}
    /\ in_log = Prefix(resp_log, Len(in_log))
    /\ (pending_response_bytes # None) <=> (Len(resp_log) = Len(in_log) + 1)
    /\ pending_response_bytes # None =>
           Prefix(response_buffer, pending_response_bytes[1]) = resp_log[Len(resp_log)]
    /\ ~io.read_pending
    /\ Len(resp_log) <= Len(out_log)
    /\ \A i \in 1..Len(in_log) :
           /\ Len(in_log[i]) = Len(ReplyFrames(out_log[i]))
           /\ Len(out_log[i]) <= 3 => in_log[i] = ReplyFrames(out_log[i])

\* two different responses were accepted, the second after a refused write
C4_Witness ==
    /\ Len(in_log) = 2
    /\ in_log[1] # in_log[2]
    /\ io.flush = "ok"
    /\ pending_response_bytes = None

(* C5: for every packet of complete DAP_Info frames, poll hands at most 64 *)
(* bytes to the IN endpoint and returns, so that the next poll call runs.  *)
C5_OverflowNotFatal ==
    (io.read = "packet" /\ IsFrames(LastPacket))
    => /\ pc = "run"
       /\ Len(response_buffer) = BufferSize
       /\ io.handed # None
       /\ Len(io.handed[1]) <= BufferSize

(* C6: when descriptor composition overflows the transfer buffer,          *)
(* control_in fails that transfer only and the device keeps running.       *)
C6_OverflowFailsOnlyTransfer ==
    (xfer.state \notin {"none", "untouched"} /\ xfer.buf_len < 174)
    => /\ xfer.state = "failed"
       /\ pc = "run"

(* C7: for a packet of one or more complete DAP_Info frames followed by a  *)
(* byte other than 0x00, the response handed to the IN endpoint is the     *)
(* replies of the frames before that byte and nothing else.                *)
C7_StopsAtUnrecognized ==
    (/\ io.read = "packet"
     /\ \E k \in 1..(Len(LastPacket) \div 2) :
            /\ IsFrames(Prefix(LastPacket, 2 * k))
            /\ Len(LastPacket) > 2 * k
            /\ LastPacket[2 * k + 1] # 0)
    => io.handed = Some(ReplyFrames(LastPacket))

(* C8: for the single frame [0x00, id] the reply is {0, len(payload),      *)
(* payload} with the canned value of the table as payload, and {0, 0} for  *)
(* every id outside the table.                                             *)
C8_InfoReply ==
    (io.read = "packet" /\ Len(LastPacket) = 2 /\ LastPacket[1] = 0)
    => /\ pc = "run"
       /\ io.handed = Some(<<0, Len(CannedValue(LastPacket[2]))>>
                           \o CannedValue(LastPacket[2]))
       /\ LastPacket[2] \notin {1, 2, 3, 4, 9, 240, 254, 255}
              => io.handed = Some(<<0, 0>>)

\* the reply to the capabilities query [0x00, 0xf0]
C8_Witness ==
    /\ out_log = << <<0, 240>> >>
    /\ io.handed = Some(<<0, 2, 1, 0>>)

(* C9: while poll keeps being called, every response that became pending   *)
(* is eventually accepted by the IN endpoint with the bytes it was         *)
(* assembled with; when the retried write is accepted and no new packet is *)
(* read the state is Idle, and a refused retry leaves the pending bytes    *)
(* as they were.                                                           *)
C9_PendingEventuallyAccepted ==
    /\ \A k \in 1..MaxPackets :
           (Len(resp_log) >= k /\ Len(in_log) < k)
           ~> (\/ (Len(in_log) >= k /\ in_log[k] = resp_log[k])
               \/ pc # "run")
    /\ [][ (pending_response_bytes # None /\ Len(in_log') > Len(in_log))
           => /\ in_log' = Append(in_log, resp_log[Len(resp_log)])
                 \/ (/\ Len(in_log') = Len(in_log) + 2
                     /\ in_log'[Len(in_log) + 1] = resp_log[Len(resp_log)])
              /\ out_log' = out_log => pending_response_bytes' = None ]_vars

\* a pending response was accepted on a retry and the state is Idle
C9_Witness ==
    /\ io.flush = "ok"
    /\ io.read = "block"
    /\ pending_response_bytes = None
    /\ Len(in_log) >= 1
    /\ Len(in_log[Len(in_log)]) > 0
    /\ in_log = resp_log

(* C10: composing the fixed descriptor set into a buffer of at least 174   *)
(* bytes succeeds with a total length of 174, whatever the buffer held     *)
(* before, and 174 is the wTotalLength of the set header and the wLength   *)
(* of the BOS platform capability.                                         *)
C10_DescriptorSetLength ==
    (xfer.state \in {"accepted", "failed"} /\ xfer.buf_len >= 174)
    => /\ xfer.state = "accepted"
       /\ Len(xfer.data) = 174
       /\ U16At(xfer.data, 8) = 174
       /\ U16At(BosCapability, 21) = Len(xfer.data)
       /\ xfer.data = Prefix(ComposeDescriptorSet(Zeros(174)).buffer, 174)

\* the descriptor set was composed into a buffer longer than it needs
C10_Witness ==
    /\ xfer.state = "accepted"
    /\ xfer.buf_len > 174
    /\ Len(xfer.data) = 174

\* the descriptor set composed into a buffer that fits it exactly
GoldenDescriptorSet == ComposeDescriptorSet(Zeros(174)).buffer

\* the offset of the first record that does not fit a buffer of len bytes:
\* set header 0, configuration subset 10, function subset 18,
\* compatible ID 26, registry property 46
FailingRecordOffset(len) ==
    IF len < 10 THEN 0
    ELSE IF len < 18 THEN 10
    ELSE IF len < 26 THEN 18
    ELSE IF len < 46 THEN 26
    ELSE 46

\* the Rust indexes of the wTotalLength fields of the three containers
TotalLengthFields == {8, 9, 16, 17, 24, 25}

(* C11: for every buffer length 0..173 composition of the fixed descriptor *)
(* set fails with BufferOverflow, the buffer keeps its prior content at    *)
(* and after the offset of the record that did not fit, and before that    *)
(* offset it holds the records that fitted (their total lengths not yet    *)
(* backpatched).                                                           *)
C11_OverflowWritesNoPartialRecord ==
    (xfer.state \in {"accepted", "failed"} /\ xfer.buf_len < 174)
    => /\ xfer.state = "failed"
       /\ Len(xfer.data) = xfer.buf_len
       /\ \A i \in 0..(xfer.buf_len - 1) :
              IF i >= FailingRecordOffset(xfer.buf_len) \/ i \in TotalLengthFields
              THEN xfer.data[i + 1] = xfer.fill
              ELSE xfer.data[i + 1] = GoldenDescriptorSet[i + 1]

\* the registry property did not fit: the compatible ID before it is
\* written, the bytes from offset 46 on are as they were
C11_Witness ==
    /\ xfer.state = "failed"
    /\ xfer.buf_len = 173
    /\ xfer.fill = 170
    /\ xfer.data[27] = 20
    /\ xfer.data[47] = 170

(* C12: control_in acts only on {Vendor, request = vendor code, value = 0, *)
(* index = 7}; a request that differs in one of the four fields is neither *)
(* accepted nor rejected and leaves the state of the interface unchanged.  *)
C12_OnlyDescriptorSetRequest ==
    /\ [](xfer.state \in {"accepted", "failed"} =>
              /\ xfer.req.request_type = "Vendor"
              /\ xfer.req.request = 1
              /\ xfer.req.value = 0
              /\ xfer.req.index = 7)
    /\ [][ (/\ xfer' # xfer
            /\ \/ xfer'.req.request_type # "Vendor"
               \/ xfer'.req.request # 1
               \/ xfer'.req.value # 0
               \/ xfer'.req.index # 7)
           => /\ xfer'.state = "untouched"
              /\ xfer'.data = << >>
              /\ UNCHANGED <<pc, response_buffer, pending_response_bytes,
                             out_log, in_log, resp_log>> ]_vars

\* a request with index 0 was left alone while a response was pending
C12_Witness ==
    /\ xfer.state = "untouched"
    /\ xfer.req = ControlRequest("Vendor", 1, 0, 0)
    /\ pending_response_bytes # None
    /\ pc = "run"

(* C13: a poll call in state Idle that finds no OUT packet is a no-op:     *)
(* nothing is handed to the IN endpoint, response_buffer and               *)
(* pending_response_bytes are unchanged and the state stays Idle.  (A step *)
(* that leaves xfer unchanged and changes a variable is a poll call.)      *)
C13_IdleBlockedPollIsNoOp ==
    [][ (pending_response_bytes = None /\ io'.read = "block" /\ xfer' = xfer)
        => /\ pending_response_bytes' = None
           /\ response_buffer' = response_buffer
           /\ in_log' = in_log
           /\ out_log' = out_log
           /\ resp_log' = resp_log
           /\ io'.flush = "none"
           /\ io'.send = "none"
           /\ io'.handed = None ]_vars

\* an idle poll found no packet after an earlier response had been sent
C13_Witness ==
    /\ pending_response_bytes = None
    /\ io.flush = "none"
    /\ io.read = "block"
    /\ Len(in_log) >= 1
    /\ in_log = resp_log

\* C16: for every size of the feature payload the nested total-length fields
\* are consistent: the function subset's wTotalLength is 8 plus the bytes the
\* features consumed, the configuration subset's is 8 plus the function
\* subset's, the set's is 10 plus the configuration subset's, and each writer
\* returns the total length it wrote into its own header.
C16_NestedTotalLengths ==
    nest.state = "ok"
    => /\ nest.returned[4] = nest.n
       /\ U16At(nest.data, 24) = 8 + nest.returned[4]
       /\ U16At(nest.data, 16) = 8 + U16At(nest.data, 24)
       /\ U16At(nest.data, 8) = 10 + U16At(nest.data, 16)
       /\ nest.returned[3] = U16At(nest.data, 24)
       /\ nest.returned[2] = U16At(nest.data, 16)
       /\ nest.returned[1] = U16At(nest.data, 8)

C16_Witness ==
    /\ nest.state = "ok"
    /\ nest.n = 7
    /\ nest.returned = <<33, 23, 15, 7>>
    /\ U16At(nest.data, 8) = 33

\* C17: for every 32-bit windows_version, write_descriptor_set stores it
\* little-endian in bytes 4..7 of the set header; u32_lo followed by the cast
\* to u16 yields the low 16 bits.
C17_WindowsVersionLittleEndian ==
    (nest.state # "none" /\ nest.buf_len >= 10)
    => /\ nest.data[5] = nest.windows_version % 256
       /\ nest.data[6] = (nest.windows_version \div 256) % 256
       /\ nest.data[7] = (nest.windows_version \div 65536) % 256
       /\ nest.data[8] = (nest.windows_version \div 16777216) % 256
       /\ U32Lo(nest.windows_version) = nest.windows_version % 65536

C17_Witness ==
    /\ nest.state = "ok"
    /\ nest.windows_version = 305419896
    /\ SubSeq(nest.data, 5, 8) = <<120, 86, 52, 18>>

\* C14: swd_transfer never changes the SWD session configuration, whatever
\* its outcome (success or any error category including WAIT); of the SwdIo
\* operations only swj_clock may modify the configuration.
C14_OnlySwjClockChangesConfig ==
    [][ /\ (swd_op'.op = "swd_transfer" => config' = config)
        /\ (config' # config => swd_op'.op = "swj_clock") ]_vars

C14_Witness ==
    /\ swd_op = [op |-> "swd_transfer", result |-> "wait"]
    /\ config = SwdIoConfig(2, 1, 2, TRUE)

\* C15: the USBCTRL_IRQ handler and the loop of main are mutually exclusive:
\* wherever the interrupt fires, the handler never runs while main is inside
\* a section that holds USB_DEVICE or USB_SERIAL, so no cell is borrowed
\* twice (no borrow_mut panics).
C15_HandlerExcludesMain ==
    /\ main_pc # "panicked" /\ irq_pc # "panicked"
    /\ irq_pc # "idle" => main_pc \in {"enter1", "enter2"}
    /\ irq_pc # "idle" => \A cell \in Cells : borrow[cell] # "main"
    /\ main_pc = "poll" => \A cell \in Cells : borrow[cell] = "main"

C15_Witness ==
    /\ irq_pc = "poll"
    /\ main_pc = "enter2"
    /\ borrow = [cell \in Cells |-> "irq"]
    /\ pending_bytes_to_write # None

\* the bytes of the port's stream that are read and not yet written
CdcOutstanding ==
    IF pending_bytes_to_write = None THEN << >>
    ELSE SubSeq(cdc_buffer, pending_bytes_to_write[1][1] + 1,
                pending_bytes_to_write[1][2])

\* C20: in the CDC loopback loop, for any read results and partial or refused
\* writes, the bytes written are exactly the bytes read, in order, each once:
\* no read happens while pending_bytes_to_write is Some, bytes_written <=
\* bytes_to_write <= 64 always, and pending is cleared only when
\* bytes_written = bytes_to_write.
C20_LoopbackExact ==
    /\ [](/\ tx_log \o CdcOutstanding = [i \in 1..rx_total |-> i]
          /\ pending_bytes_to_write # None
              => /\ pending_bytes_to_write[1][1] <= pending_bytes_to_write[1][2]
                 /\ pending_bytes_to_write[1][2] <= 64)
    /\ [][ /\ pending_bytes_to_write # None
               => (rx_total' = rx_total /\ cdc_buffer' = cdc_buffer)
           /\ (pending_bytes_to_write # None /\ pending_bytes_to_write' = None)
               => Len(tx_log') - Len(tx_log)
                  = pending_bytes_to_write[1][2] - pending_bytes_to_write[1][1]
         ]_vars

C20_Witness ==
    /\ pending_bytes_to_write = None
    /\ tx_log = <<1, 2, 3, 4>>
    /\ rx_total = 4
    /\ cdc_io = [read |-> "skipped", write |-> "complete"]

\* the response poll assembles for packet p in a buffer that holds no
\* earlier response
FreshResponse(p) ==
    LET res == CommandLoop(p, Zeros(BufferSize), 0, 0)
    IN  Prefix(res.buffer, res.response_length)

\* C18: the response handed to the IN endpoint for a packet depends only on
\* that packet: whatever earlier responses left in response_buffer, the
\* response is the one a zeroed buffer gives, so no stale byte is sent.
C18_ResponseDependsOnlyOnPacket ==
    \A i \in 1..Len(resp_log) : resp_log[i] = FreshResponse(out_log[i])

\* C19: every OUT packet poll consumes leads to exactly one transmission
\* attempt of the assembled response in the same call, also for an empty
\* response; if the attempt fails, pending_response_bytes becomes Some of
\* that response's length.
C19_ConsumedPacketIsAnswered ==
    io.read = "packet"
    => /\ io.handed # None
       /\ io.send \in {"ok", "busy"}
       /\ io.send = "busy"
           => pending_response_bytes = Some(Len(io.handed[1]))
       /\ Len(resp_log) = Len(out_log)

\* out is the ASCII string s with a zero byte after every byte: output byte
\* 2i is source byte i, output byte 2i + 1 is 0
IsZeroPadded(out, s) ==
    /\ Len(out) = 2 * Len(s)
    /\ \A i \in 0..(Len(s) - 1) :
           out[2 * i + 1] = s[i + 1] /\ out[2 * i + 2] = 0

\* C21: write_registry_property, for a name of n bytes, a value of d bytes
\* and a buffer of at least n + d + 10 bytes, returns n + d + 10 and writes
\* u16 length = n + d + 10, u16 type = 0x0004, u16 property type, u16 name
\* length = n, the name, u16 data length = d, the data, little-endian and
\* contiguous; the name and value control_in passes are the ASCII source
\* strings with a zero byte after every source byte.
C21_RegistryPropertyRecord ==
    LET n      == Len(reg.property_name)
        d      == Len(reg.property_data)
        length == n + d + 10
    IN  /\ (reg.state # "none" /\ reg.buf_len >= length)
           => /\ reg.state = "ok"
              /\ reg.returned = length
              /\ Len(reg.buffer) = reg.buf_len
              /\ Prefix(reg.buffer, length)
                 = <<length % 256, length \div 256, 4, 0,
                     reg.property_type % 256, reg.property_type \div 256,
                     n % 256, n \div 256>>
                   \o reg.property_name
                   \o <<d % 256, d \div 256>>
                   \o reg.property_data
        /\ reg.caller = "control_in"
           => /\ IsZeroPadded(reg.property_name, PropertyNameAscii)
              /\ IsZeroPadded(reg.property_data, PropertyDataAscii)

C21_Witness ==
    /\ reg.state = "ok"
    /\ reg.caller = "control_in"
    /\ reg.returned = 128
    /\ SubSeq(reg.buffer, 1, 12) = <<128, 0, 4, 0, 1, 0, 40, 0, 68, 0, 101, 0>>
    /\ SubSeq(reg.buffer, 49, 52) = <<78, 0, 123, 0>>

====
